---- MODULE Spec2Model ----
(***************************************************************************)
(* Model of netzob's SearchEngine                                          *)
(* (src/netzob/Inference/Vocabulary/Search/SearchEngine.py).               *)
(*                                                                         *)
(* Two specifications share the variables and the steps of __search:       *)
(*   Spec        the call searchInMessage(data, message, addTags) on one   *)
(*               message object, repeated up to MaxCalls times;            *)
(*   SpecSearch  the method __search applied to an arbitrary iterable of   *)
(*               search cases (target, searchTask).                        *)
(*                                                                         *)
(* Collaborators whose code is not in SearchEngine.py:                     *)
(*   - bitarray.search (third-party bitarray library): every start         *)
(*     position, overlapping ones included, in ascending order; an empty   *)
(*     bitarray as argument raises ValueError("can't search for empty      *)
(*     bitarray");                                                         *)
(*   - AbstractType.mutate, TypeConverter.convert: modelled from the       *)
(*     design document (Mutation Generator, message model).                *)
(***************************************************************************)
EXTENDS Integers, Sequences, FiniteSets, TLC

\* ------------------------------------------------------------------ bounds
\* longest message, in bytes (Spec)
MaxMsgBytes == 1
\* longest bit sequence of one mutation of the reference value (Spec)
MaxMutation == 2
\* longest needle and longest target handed to __search directly (SpecSearch)
MaxNeedle == 4
MaxTarget == 6
\* number of searchInMessage calls made on the message (Spec)
MaxCalls == 2

\* byte values a message is made of (Spec)
ByteVals == {0, 90, 170, 255}
\* the encodings of a reference value, in the order mutate() yields them
LabelOrder == <<"identity", "reversed">>
Labels == {LabelOrder[i] : i \in 1..Len(LabelOrder)}

Bits == {0, 1}
BitSeqs(n) == UNION {[1..k -> Bits] : k \in 0..n}
ByteSeqs(n) == UNION {[1..k -> ByteVals] : k \in 0..n}

\* ------------------------------------------------------------- data model
\* A search task: SearchTask(mutation, mutationType); kind tells what
\* isinstance(searchTask, SearchTask) / "is None" see.
SearchTask(mutation, mutationType) ==
    [kind |-> "SearchTask", description |-> mutationType, data |-> mutation]
NoneTask == [kind |-> "None", description |-> "", data |-> <<>>]

\* A target: a bitarray, or None.
BitArrayOf(bits) == [kind |-> "bitarray", bits |-> bits]
NoneTarget == [kind |-> "None", bits |-> <<>>]

\* SearchResult(target, searchTask, ranges)
SearchResult(target, searchTask, ranges) ==
    [target |-> target, task |-> searchTask, ranges |-> ranges]

\* The outcome of one encoding of a reference value: its bits, or not
\* representable for this value.
Unrepresentable == [ok |-> FALSE, bits |-> <<>>]
Encoded(bits) == [ok |-> TRUE, bits |-> bits]
Encodings == {Unrepresentable} \cup {Encoded(b) : b \in BitSeqs(MaxMutation)}

VARIABLES
    pc,            \* position of the running call
    entry,         \* "searchInMessage" or "__search": the method called
    data,          \* argument data: "None" or "ref" (the reference value)
    message,       \* argument message: "None" or "m" (the message object)
    addTags,       \* argument addTags
    ref,           \* the reference value: label -> outcome of that encoding
    msgData,       \* message.data, a sequence of bytes
    vis,           \* message.visualizationFunctions: <<startPos, endPos>>
    searchCases,   \* [kind, target, tasks]: itertools.product([target], tasks)
    idx,           \* 1-based position of __search's for loop; 0 before it
    ranges,        \* local `ranges` of the last case __search completed
    results,       \* local `results` of __search / `searchResults`
    tagged,        \* number of ranges already appended by the tagging loop
    err,           \* the exception the call raised, "" if none
    calls,         \* number of calls made so far
    mutated,       \* whether this call has invoked data.mutate()
    visAtCall,     \* vis as it was when the running call started
    prev,          \* the SearchResults the previous call returned
    tagCalls,      \* number of calls that returned after tagging the message
    other          \* a second call running on the same message (SpecConc)

vars == <<pc, entry, data, message, addTags, ref, msgData, vis, searchCases,
          idx, ranges, results, tagged, err, calls, mutated, visAtCall, prev, tagCalls, other>>

\* --------------------------------------------------------- pure functions
\* TypeConverter.convert(message.data, Raw, BitArray): each byte becomes its
\* eight bits, most significant first.
ByteToBits(b) == [i \in 1..8 |-> (b \div (2 ^ (8 - i))) % 2]

RECURSIVE RawToBitArray(_)
RawToBitArray(raw) ==
    IF raw = <<>> THEN <<>>
    ELSE ByteToBits(Head(raw)) \o RawToBitArray(Tail(raw))

\* One comparison of bitarray's scan: does needle sit at 0-based offset p?
MatchesAt(haystack, needle, p) ==
    \A i \in 1..Len(needle) : haystack[p + i] = needle[i]

\* bitarray.search's scan from offset p on: test p, step by one bit, so a
\* match may start inside the previous one.
RECURSIVE ScanFrom(_, _, _)
ScanFrom(haystack, needle, p) ==
    IF p + Len(needle) > Len(haystack) THEN <<>>
    ELSE IF MatchesAt(haystack, needle, p)
         THEN <<p>> \o ScanFrom(haystack, needle, p + 1)
         ELSE ScanFrom(haystack, needle, p + 1)

\* target.search(searchTask.data): the list of start positions, or the
\* ValueError bitarray raises for an empty needle.
bitarray_search(haystack, needle) ==
    IF Len(needle) = 0
    THEN [raises |-> "ValueError", list |-> <<>>]
    ELSE [raises |-> "", list |-> ScanFrom(haystack, needle, 0)]

\* Faulty variant of MatchRange: the end is the offset of the last bit.
MatchRange_inclusiveEnd(startIndex, needle) ==
    <<startIndex, startIndex + Len(needle) - 1>>

\* line 164: one range per start index
MatchRange(startIndex, needle) == <<startIndex, startIndex + Len(needle)>>

\* Faulty variant of RangesOf: the loop stops after the first start index.
RangesOf_firstOnly(starts, needle) ==
    IF starts = <<>> THEN <<>> ELSE <<MatchRange(starts[1], needle)>>

\* lines 162-164: the list of ranges built from the start indexes
RangesOf(starts, needle) ==
    [k \in 1..Len(starts) |-> MatchRange(starts[k], needle)]

\* Faulty variant of AppendResult: the test of line 166 is missing.
AppendResult_always(res, target, searchTask, rs) ==
    Append(res, SearchResult(target, searchTask, rs))

\* Faulty variant of AppendResult: the result is inserted in front.
AppendResult_prepend(res, target, searchTask, rs) ==
    IF Len(rs) > 0 THEN <<SearchResult(target, searchTask, rs)>> \o res
    ELSE res

\* Faulty variant of AppendResult: ranges the message already highlights are
\* left out.
AppendResult_skipTagged(res, target, searchTask, rs) ==
    LET Fresh(r) == \A k \in 1..Len(vis) : vis[k] # r
        fresh == SelectSeq(rs, Fresh)
    IN IF Len(fresh) > 0
       THEN Append(res, SearchResult(target, searchTask, fresh))
       ELSE res

\* lines 166-167: a case with no range adds nothing, another one result
AppendResult(res, target, searchTask, rs) ==
    IF Len(rs) > 0 THEN Append(res, SearchResult(target, searchTask, rs))
    ELSE res

\* Faulty variant of searchOne: a malformed case is skipped and the loop goes
\* on with the results so far.
searchOne_skipMalformed(res, target, searchTask) ==
    IF target.kind # "bitarray" \/ searchTask.kind # "SearchTask"
    THEN [raises |-> "", ranges |-> <<>>, results |-> res]
    ELSE LET found == bitarray_search(target.bits, searchTask.data)
             rs == RangesOf(found.list, searchTask.data)
         IN IF found.raises # ""
            THEN [raises |-> "ValueError: can't search for empty bitarray",
                  ranges |-> <<>>, results |-> <<>>]
            ELSE [raises |-> "", ranges |-> rs,
                  results |-> AppendResult(res, target.bits, searchTask, rs)]

\* lines 159-167: the body of __search's loop for one case, given the results
\* so far: the exception it raises, or the ranges it finds and the results
\* after it.
searchOne(res, target, searchTask) ==
    IF target.kind # "bitarray" \/ searchTask.kind # "SearchTask"
    THEN [raises |-> "TypeError: Each search case must a tupple",
          ranges |-> <<>>, results |-> <<>>]
    ELSE LET found == bitarray_search(target.bits, searchTask.data)
             rs == RangesOf(found.list, searchTask.data)
         IN IF found.raises # ""
            THEN [raises |-> "ValueError: can't search for empty bitarray",
                  ranges |-> <<>>, results |-> <<>>]
            ELSE [raises |-> "", ranges |-> rs,
                  results |-> AppendResult(res, target.bits, searchTask, rs)]

\* data.mutate(): the mapping mutationType -> bits, in generation order. An
\* encoding that is not representable is skipped, an empty bit sequence is
\* discarded.
RECURSIVE mutateFrom(_, _)
mutateFrom(value, i) ==
    IF i > Len(LabelOrder) THEN <<>>
    ELSE LET l == LabelOrder[i]
             rest == mutateFrom(value, i + 1)
         IN IF value[l].ok /\ Len(value[l].bits) > 0
            THEN <<[mutationType |-> l, mutation |-> value[l].bits]>> \o rest
            ELSE rest

mutate(value) == mutateFrom(value, 1)

\* Faulty variant of buildSearchTasks: one encoding that is not representable
\* makes the whole expansion come out empty.
buildSearchTasks_allOrNothing(value) ==
    LET ms == mutate(value)
    IN IF \E l \in Labels : ~value[l].ok THEN <<>>
       ELSE [k \in 1..Len(ms) |->
                SearchTask(ms[k].mutation, ms[k].mutationType)]

\* line 184: one SearchTask per entry of data.mutate()
buildSearchTasks(value) ==
    LET ms == mutate(value)
    IN [k \in 1..Len(ms) |-> SearchTask(ms[k].mutation, ms[k].mutationType)]

\* the ranges of all results, in result order then range order (the order of
\* the nested loops of lines 139-140)
RECURSIVE AllRanges(_)
AllRanges(res) ==
    IF res = <<>> THEN <<>> ELSE Head(res).ranges \o AllRanges(Tail(res))

NoCases == [kind |-> "None", target |-> NoneTarget, tasks |-> <<>>]
CasesOf(target, tasks) == [kind |-> "list", target |-> target, tasks |-> tasks]
NoPrev == [some |-> FALSE, value |-> <<>>]
\* the locals of the second call; "absent" when there is no second call
NoRef == [l \in Labels |-> Unrepresentable]
OtherAt(p, t, r) ==
    [pc |-> p, addTags |-> t, ref |-> r, searchCases |-> NoCases, idx |-> 0,
     results |-> <<>>, tagged |-> 0, err |-> ""]
NoOther == OtherAt("absent", FALSE, NoRef)

\* ------------------------------------------------------------------- Init
Init ==
    /\ pc = "idle"
    /\ entry = "searchInMessage"
    /\ data = "None"
    /\ message = "None"
    /\ addTags = FALSE
    /\ ref \in [Labels -> Encodings]
    /\ msgData \in ByteSeqs(MaxMsgBytes)
    /\ vis = <<>>
    /\ searchCases = NoCases
    /\ idx = 0
    /\ ranges = <<>>
    /\ results = <<>>
    /\ tagged = 0
    /\ err = ""
    /\ calls = 0
    /\ mutated = FALSE
    /\ visAtCall = <<>>
    /\ prev = NoPrev
    /\ tagCalls = 0
    /\ other = NoOther

\* ---------------------------------------------------------------- actions
\* lines 81-98: searchInMessage(data, message, addTags) is called; the
\* previous call, if any, has ended.
searchInMessage ==
    /\ pc \in {"idle", "returned", "raised"}
    /\ entry = "searchInMessage"
    /\ calls < MaxCalls
    /\ \E d \in {"None", "ref"}, m \in {"None", "m"},
          t \in {"omitted", "True", "False"} :
          /\ data' = d
          /\ message' = m
          \* line 82: addTags=True when the caller leaves it out
          /\ addTags' = (t # "False")
    /\ pc' = "check"
    /\ calls' = calls + 1
    /\ prev' = IF pc = "returned" THEN [some |-> TRUE, value |-> results]
               ELSE prev
    /\ searchCases' = NoCases
    /\ idx' = 0
    /\ ranges' = <<>>
    /\ results' = <<>>
    /\ tagged' = 0
    /\ err' = ""
    /\ mutated' = FALSE
    /\ visAtCall' = vis
    /\ UNCHANGED <<entry, ref, msgData, vis, tagCalls, other>>

\* Faulty variant of checkArguments: the message is tested only after the
\* search tasks have been built (lines 124-127 run before line 120).
checkArguments_afterBuild ==
    /\ pc = "check"
    /\ IF data = "None"
       THEN /\ pc' = "raised"
            /\ err' = "TypeError: Data cannot be None"
            /\ UNCHANGED <<searchCases, mutated>>
       ELSE /\ mutated' = TRUE
            /\ searchCases' = CasesOf(NoneTarget, buildSearchTasks(ref))
            /\ IF message = "None"
               THEN pc' = "raised" /\ err' = "TypeError: Message cannot be None"
               ELSE pc' = "build" /\ err' = err
    /\ UNCHANGED <<entry, data, message, addTags, ref, msgData, vis, idx,
                   ranges, results, tagged, calls, visAtCall, prev, tagCalls, other>>

\* lines 117-121: the two None checks of searchDataInMessage
checkArguments ==
    /\ pc = "check"
    /\ IF data = "None"
       THEN pc' = "raised" /\ err' = "TypeError: Data cannot be None"
       ELSE IF message = "None"
            THEN pc' = "raised" /\ err' = "TypeError: Message cannot be None"
            ELSE pc' = "build" /\ err' = err
    /\ UNCHANGED <<entry, data, message, addTags, ref, msgData, vis,
                   searchCases, idx, ranges, results, tagged, calls, mutated,
                   visAtCall, prev, tagCalls, other>>

\* lines 123-135: normalize, build the tasks, convert the message, pair the
\* target with every task and enter __search
buildCases ==
    /\ pc = "build"
    /\ searchCases' = CasesOf(BitArrayOf(RawToBitArray(msgData)),
                              buildSearchTasks(ref))
    /\ mutated' = TRUE
    /\ pc' = "search_entry"
    /\ UNCHANGED <<entry, data, message, addTags, ref, msgData, vis, idx,
                   ranges, results, tagged, err, calls, visAtCall, prev, tagCalls, other>>

\* lines 154-157: __search refuses None and starts with empty results
searchEntry ==
    /\ pc = "search_entry"
    /\ IF searchCases.kind = "None"
       THEN /\ pc' = "raised"
            /\ err' = "TypeError: There should be at least one search case."
            /\ UNCHANGED <<idx, results>>
       ELSE /\ pc' = "search_loop"
            /\ idx' = 1
            /\ results' = <<>>
            /\ err' = err
    /\ UNCHANGED <<entry, data, message, addTags, ref, msgData, vis,
                   searchCases, ranges, tagged, calls, mutated, visAtCall,
                   prev, tagCalls, other>>

\* lines 158-167: one iteration of __search's loop. An exception unwinds the
\* call: the local results are gone.
searchCase ==
    /\ pc = "search_loop"
    /\ idx <= Len(searchCases.tasks)
    /\ LET step == searchOne(results, searchCases.target,
                             searchCases.tasks[idx])
       IN IF step.raises # ""
          THEN /\ pc' = "raised"
               /\ err' = step.raises
               /\ results' = <<>>
               /\ UNCHANGED <<idx, ranges>>
          ELSE /\ ranges' = step.ranges
               /\ results' = step.results
               /\ idx' = idx + 1
               /\ UNCHANGED <<pc, err>>
    /\ UNCHANGED <<entry, data, message, addTags, ref, msgData, vis,
                   searchCases, tagged, calls, mutated, visAtCall, prev, tagCalls, other>>

\* line 169: __search returns its results, to searchDataInMessage (line 135)
\* or to whoever called it
searchReturn ==
    /\ pc = "search_loop"
    /\ idx > Len(searchCases.tasks)
    /\ pc' = IF entry = "searchInMessage" THEN "tagging" ELSE "returned"
    /\ UNCHANGED <<entry, data, message, addTags, ref, msgData, vis,
                   searchCases, idx, ranges, results, tagged, err, calls,
                   mutated, visAtCall, prev, tagCalls, other>>

\* Faulty variant of tagRange: the tag is written into the message's data.
tagRange_intoData ==
    /\ pc = "tagging"
    /\ addTags
    /\ tagged < Len(AllRanges(results))
    /\ msgData' = <<255>> \o msgData
    /\ tagged' = tagged + 1
    /\ UNCHANGED <<pc, entry, data, message, addTags, ref, vis, searchCases,
                   idx, ranges, results, err, calls, mutated, visAtCall, prev, tagCalls, other>>

\* Faulty variant of tagRange: the test of line 138 is missing.
tagRange_ignoresAddTags ==
    /\ pc = "tagging"
    /\ tagged < Len(AllRanges(results))
    /\ vis' = Append(vis, AllRanges(results)[tagged + 1])
    /\ tagged' = tagged + 1
    /\ UNCHANGED <<pc, entry, data, message, addTags, ref, msgData,
                   searchCases, idx, ranges, results, err, calls, mutated,
                   visAtCall, prev, tagCalls, other>>

\* Faulty variant of tagRange: a range the message already highlights is not
\* appended again.
tagRange_dedupe ==
    /\ pc = "tagging"
    /\ addTags
    /\ tagged < Len(AllRanges(results))
    /\ vis' = IF \E k \in 1..Len(vis) : vis[k] = AllRanges(results)[tagged + 1]
              THEN vis
              ELSE Append(vis, AllRanges(results)[tagged + 1])
    /\ tagged' = tagged + 1
    /\ UNCHANGED <<pc, entry, data, message, addTags, ref, msgData,
                   searchCases, idx, ranges, results, err, calls, mutated,
                   visAtCall, prev, tagCalls, other>>

\* lines 138-141: one HighlightFunction(startPos, endPos) is appended to
\* message.visualizationFunctions
tagRange ==
    /\ pc = "tagging"
    /\ addTags
    /\ tagged < Len(AllRanges(results))
    /\ vis' = Append(vis, AllRanges(results)[tagged + 1])
    /\ tagged' = tagged + 1
    /\ UNCHANGED <<pc, entry, data, message, addTags, ref, msgData,
                   searchCases, idx, ranges, results, err, calls, mutated,
                   visAtCall, prev, tagCalls, other>>

\* line 142: return searchResults
returnResults ==
    /\ pc = "tagging"
    /\ ~addTags \/ tagged = Len(AllRanges(results))
    /\ pc' = "returned"
    /\ tagCalls' = IF addTags THEN tagCalls + 1 ELSE tagCalls
    /\ UNCHANGED <<entry, data, message, addTags, ref, msgData, vis,
                   searchCases, idx, ranges, results, tagged, err, calls,
                   mutated, visAtCall, prev, other>>

Next ==
    \/ searchInMessage
    \/ checkArguments
    \/ buildCases
    \/ searchEntry
    \/ searchCase
    \/ searchReturn
    \/ tagRange
    \/ returnResults

Spec == Init /\ [][Next]_vars

\* -------------------------------------- the message model may refuse a tag
\* line 141: HighlightFunction(startPos, endPos) or the append raises; the
\* exception leaves searchDataInMessage before line 142 is reached, the
\* highlights appended so far stay
tagFails ==
    /\ pc = "tagging"
    /\ addTags
    /\ tagged < Len(AllRanges(results))
    /\ pc' = "raised"
    /\ err' = "AnnotationFailure"
    /\ results' = <<>>
    /\ UNCHANGED <<entry, data, message, addTags, ref, msgData, vis,
                   searchCases, idx, ranges, tagged, calls, mutated,
                   visAtCall, prev, tagCalls, other>>

NextFail ==
    \/ Next
    \/ tagFails

SpecFail == Init /\ [][NextFail]_vars

\* ------------------------------------------- __search called on its own
\* a search task as a caller of __search may pass it: a SearchTask holding
\* any bit sequence, or something that is no SearchTask
\* (the tasks after the first one hold at most one bit, to keep the
\* enumeration small)
AnyTasks == {NoneTask} \cup {SearchTask(b, "m") : b \in BitSeqs(MaxNeedle)}
LaterTasks == {NoneTask} \cup {SearchTask(b, "n") : b \in BitSeqs(1)}
AnyTaskSeqs ==
    {<<>>} \cup {<<t>> : t \in AnyTasks}
           \cup {<<t, u>> : t \in AnyTasks, u \in LaterTasks}
AnyTargets == {NoneTarget} \cup {BitArrayOf(b) : b \in BitSeqs(MaxTarget)}

InitSearch ==
    /\ pc = "search_entry"
    /\ entry = "__search"
    /\ data = "None"
    /\ message = "None"
    /\ addTags = FALSE
    /\ ref = [l \in Labels |-> Unrepresentable]
    /\ msgData = <<>>
    /\ vis = <<>>
    /\ searchCases \in {NoCases} \cup
          {CasesOf(t, ts) : t \in AnyTargets, ts \in AnyTaskSeqs}
    /\ idx = 0
    /\ ranges = <<>>
    /\ results = <<>>
    /\ tagged = 0
    /\ err = ""
    /\ calls = 0
    /\ mutated = FALSE
    /\ visAtCall = <<>>
    /\ prev = NoPrev
    /\ tagCalls = 0
    /\ other = NoOther

NextSearch ==
    \/ searchEntry
    \/ searchCase
    \/ searchReturn

SpecSearch == InitSearch /\ [][NextSearch]_vars

\* ---------------------------------------------------------------- claims
\* the offsets at which needle occurs in haystack, stated without a scan
Occurrences(haystack, needle) ==
    {i \in 0..Len(haystack) :
        /\ i + Len(needle) <= Len(haystack)
        /\ SubSeq(haystack, i + 1, i + Len(needle)) = needle}

Starts(rs) == [k \in 1..Len(rs) |-> rs[k][1]]

\* s lists exactly the elements of S, in strictly ascending order
AscendingListOf(s, S) ==
    /\ \A k \in 1..(Len(s) - 1) : s[k] < s[k + 1]
    /\ {s[k] : k \in 1..Len(s)} = S

\* the call has ended: it returned or it raised
Ended == pc \in {"returned", "raised"}
\* what the caller of the ended call holds: the returned results, or nothing
\* when the call raised
Delivered == IF pc = "returned" THEN results ELSE <<>>

\* C1: for every search case __search has completed, and for every
\* SearchResult it holds, the start offsets of the ranges are exactly the bit
\* offsets at which the task's bits occur in the target, overlapping ones
\* included, in strictly ascending order.
C1_AllOccurrencesAscending ==
    /\ (pc \in {"search_loop", "tagging", "returned"} /\ idx > 1) =>
          AscendingListOf(Starts(ranges),
                          Occurrences(searchCases.target.bits,
                                      searchCases.tasks[idx - 1].data))
    /\ \A j \in 1..Len(results) :
          AscendingListOf(Starts(results[j].ranges),
                          Occurrences(results[j].target, results[j].task.data))

\* C1 witness: needle 1010 in target 101010 is reported at offsets 0 and 2.
C1_Witness ==
    /\ pc = "returned"
    /\ searchCases.target.bits = <<1, 0, 1, 0, 1, 0>>
    /\ Len(searchCases.tasks) = 1
    /\ searchCases.tasks[1].data = <<1, 0, 1, 0>>
    /\ Len(results) = 1
    /\ Starts(results[1].ranges) = <<0, 2>>

\* the search cases are what __search expects: a list of (bitarray, SearchTask)
WellFormedCases ==
    /\ searchCases.kind = "list"
    /\ searchCases.target.kind = "bitarray"
    /\ \A k \in 1..Len(searchCases.tasks) :
          searchCases.tasks[k].kind = "SearchTask"

\* none of the tasks of the running call occurs in its target
NoTaskOccurs ==
    \A k \in 1..Len(searchCases.tasks) :
        Occurrences(searchCases.target.bits, searchCases.tasks[k].data) = {}

\* C2: no SearchResult has an empty range list, a task whose bits occur
\* nowhere in the target has no SearchResult in the returned collection,
\* and a search over well-formed cases of which no task occurs returns the
\* empty collection instead of raising.
C2_NoMatchNoResult ==
    /\ \A j \in 1..Len(results) : Len(results[j].ranges) > 0
    /\ pc = "returned" =>
          \A k \in 1..Len(searchCases.tasks) :
              Occurrences(searchCases.target.bits,
                          searchCases.tasks[k].data) = {}
              => \A j \in 1..Len(results) :
                    results[j].task # searchCases.tasks[k]
    /\ (Ended /\ WellFormedCases /\ NoTaskOccurs) =>
          (pc = "returned" /\ results = <<>>)

\* C2 witness: a search with two tasks, none of which occurs, has returned.
C2_Witness ==
    /\ pc = "returned"
    /\ WellFormedCases
    /\ Len(searchCases.tasks) = 2
    /\ NoTaskOccurs
    /\ results = <<>>

\* a range lies in the target and is as long as the needle
RangeOk(r, haystack, needle) ==
    /\ r[2] = r[1] + Len(needle)
    /\ 0 <= r[1]
    /\ r[2] <= Len(haystack)

\* C3: every range (start, end) of every SearchResult, and of the case just
\* completed, has end = start + len(task bits), 0 <= start and
\* end <= len(target).
C3_RangeIsHalfOpenInTarget ==
    /\ \A j \in 1..Len(results) : \A k \in 1..Len(results[j].ranges) :
          RangeOk(results[j].ranges[k], results[j].target,
                  results[j].task.data)
    /\ (pc \in {"search_loop", "tagging", "returned"} /\ idx > 1) =>
          \A k \in 1..Len(ranges) :
              RangeOk(ranges[k], searchCases.target.bits,
                      searchCases.tasks[idx - 1].data)

\* C3 witness: a returned result holds a range that starts inside the target
\* and ends at its last bit.
C3_Witness ==
    /\ pc = "returned"
    /\ \E j \in 1..Len(results) : \E k \in 1..Len(results[j].ranges) :
          /\ results[j].ranges[k][1] > 0
          /\ results[j].ranges[k][2] = Len(results[j].target)
          /\ Len(results[j].task.data) > 1

\* the tasks among the first n of the running call whose bits occur in the
\* target, in task order
MatchedTasks(n) ==
    LET Occurs(t) ==
            Occurrences(searchCases.target.bits, t.data) # {}
    IN SelectSeq(SubSeq(searchCases.tasks, 1, n), Occurs)

TasksOf(res) == [j \in 1..Len(res) |-> res[j].task]

\* C4: the results hold exactly one SearchResult per task that occurs in the
\* target and none for the others, in the order of the tasks, which is the
\* order in which mutate() yielded the mutations; this holds after every
\* completed case and for the collection returned.
C4_OneResultPerMatchedTaskInOrder ==
    /\ (pc \in {"search_loop", "tagging", "returned"}) =>
          /\ TasksOf(results) = MatchedTasks(idx - 1)
          /\ [k \in 1..Len(searchCases.tasks) |->
                 searchCases.tasks[k].description]
             = [k \in 1..Len(mutate(ref)) |-> mutate(ref)[k].mutationType]
    /\ pc \in {"tagging", "returned"} => idx - 1 = Len(searchCases.tasks)

\* C4 witness: both mutations matched and the returned results list them in
\* generation order.
C4_Witness ==
    /\ pc = "returned"
    /\ Len(results) = 2
    /\ results[1].task.description = LabelOrder[1]
    /\ results[2].task.description = LabelOrder[2]
    /\ results[1].task.data # results[2].task.data

IsPrefix(s, t) == Len(s) <= Len(t) /\ SubSeq(t, 1, Len(s)) = s

\* C6: no step of a call changes the message's data, and a step changes the
\* message's list of highlights only by appending to it.
C6_MessageDataUnchanged ==
    [][msgData' = msgData /\ IsPrefix(vis, vis')]_vars

\* C6 witness: a tagging call has returned after an earlier call had tagged
\* the message, and the data is still a full byte sequence.
C6_Witness ==
    /\ pc = "returned"
    /\ addTags
    /\ visAtCall # <<>>
    /\ Len(vis) > Len(visAtCall)
    /\ Len(msgData) = MaxMsgBytes

\* C7: a call whose data or message is None ends raising a TypeError while
\* mutate() has not been invoked, no search case exists, __search's loop has
\* not started and the message's highlights are as they were at the call.
C7_AbsentArgumentFailsFirst ==
    (pc \notin {"idle", "check"} /\ (data = "None" \/ message = "None")) =>
        /\ pc = "raised"
        /\ err = (IF data = "None" THEN "TypeError: Data cannot be None"
                  ELSE "TypeError: Message cannot be None")
        /\ ~mutated
        /\ searchCases = NoCases
        /\ idx = 0
        /\ results = <<>>
        /\ vis = visAtCall

\* C7 witness: a call with a reference value and no message has raised, on
\* a message an earlier call had tagged.
C7_Witness ==
    /\ pc = "raised"
    /\ data = "ref"
    /\ message = "None"
    /\ vis # <<>>

\* C8 (as claimed): a search over well-formed cases one of whose tasks holds
\* zero bits does not fail, and that task has no SearchResult in what is
\* returned.
C8_EmptyNeedleNeverMatchesNorFails ==
    (Ended /\ WellFormedCases
           /\ \E k \in 1..Len(searchCases.tasks) :
                 Len(searchCases.tasks[k].data) = 0) =>
        /\ pc = "returned"
        /\ \A j \in 1..Len(results) : Len(results[j].task.data) > 0

\* the position of the first task that is no SearchTask, 0 if there is none
FirstMalformed ==
    LET bad == {k \in 1..Len(searchCases.tasks) :
                   searchCases.tasks[k].kind # "SearchTask"}
    IN IF bad = {} THEN 0 ELSE CHOOSE k \in bad : \A m \in bad : k <= m

Representable == {l \in Labels : ref[l].ok /\ Len(ref[l].bits) > 0}

RECURSIVE RangesBefore(_, _)
RangesBefore(res, j) ==
    IF j <= 1 THEN 0
    ELSE RangesBefore(res, j - 1) + Len(res[j - 1].ranges)

TotalRanges(res) == RangesBefore(res, Len(res) + 1)

\* tags is base followed by exactly one (start, end) per range of res, in
\* result order then range order
TaggedWith(tags, base, res) ==
    /\ Len(tags) = Len(base) + TotalRanges(res)
    /\ SubSeq(tags, 1, Len(base)) = base
    /\ \A j \in 1..Len(res) : \A k \in 1..Len(res[j].ranges) :
          tags[Len(base) + RangesBefore(res, j) + k] = res[j].ranges[k]

\* C11: a call that returns with addTags true has appended to the message's
\* highlights exactly one (start, end) per range of each returned result, in
\* result order then range order; a call with addTags false, and a call
\* that raises, leaves the highlights as they were at the call.
C11_TagsIffRequested ==
    /\ (pc = "returned" /\ addTags) => TaggedWith(vis, visAtCall, results)
    /\ (pc # "idle" /\ ~addTags) => vis = visAtCall
    /\ pc = "raised" => vis = visAtCall

\* C11 witness: a tagging call has returned two results, the first of them
\* with several ranges, on a message that held highlights before.
C11_Witness ==
    /\ pc = "returned"
    /\ addTags
    /\ Len(results) = 2
    /\ Len(results[1].ranges) >= 2
    /\ visAtCall # <<>>
    /\ Len(vis) = Len(visAtCall) + TotalRanges(results)

\* C12 (as claimed): no highlight is appended before __search has gone
\* through all tasks, and when appending a highlight fails the call raises
\* while the caller still is delivered the complete result collection: one
\* result per task that occurs in the target.
C12_ResultsSurviveTagFailure ==
    /\ (vis # visAtCall \/ tagged > 0) =>
          (searchCases.kind = "list" /\ idx = Len(searchCases.tasks) + 1)
    /\ (pc = "raised" /\ err = "AnnotationFailure") =>
          TasksOf(Delivered) = MatchedTasks(Len(searchCases.tasks))

\* the elements of the set S of numbers, in ascending order
RECURSIVE Ascending(_)
Ascending(S) ==
    IF S = {} THEN <<>>
    ELSE LET m == CHOOSE x \in S : \A y \in S : x <= y
         IN <<m>> \o Ascending(S \ {m})

\* the (start, end) of every occurrence in haystack of tasks[j], tasks[j+1],
\* ..., task after task, each task's occurrences by ascending start
RECURSIVE HighlightsFrom(_, _, _)
HighlightsFrom(tasks, haystack, j) ==
    IF j > Len(tasks) THEN <<>>
    ELSE LET needle == tasks[j].data
             starts == Ascending(Occurrences(haystack, needle))
         IN [k \in 1..Len(starts) |->
                <<starts[k], starts[k] + Len(needle)>>]
            \o HighlightsFrom(tasks, haystack, j + 1)

\* ------------------------------------ two calls running on the same message
\* Each call of searchInMessage builds its own SearchEngine() (line 97) and
\* keeps searchTasks, target, searchCases and searchResults in locals; the
\* message object is the only thing both calls hold. The first call runs in
\* the variables of Spec, the second in the record `other`; a step of either
\* call is one of the steps of Spec.

\* most ranges the two concurrent calls may find together
MaxConcTags == 5

\* the number of ranges a search of the reference value r finds in message m
RangeCount(r, m) ==
    Len(HighlightsFrom(buildSearchTasks(r), RawToBitArray(m), 1))

\* the reference values the first call may search in the message m: those
\* that occur in it
ConcRefs(m) ==
    {r \in [Labels -> Encodings] :
        1 <= RangeCount(r, m) /\ RangeCount(r, m) < MaxConcTags}

\* the reference values the second call may search in m next to a first
\* call searching r: those that only the first encoding can represent and
\* that occur in m too
OtherRefs(m, r) ==
    {o \in [Labels -> Encodings] :
        /\ \A i \in 2..Len(LabelOrder) : o[LabelOrder[i]] = Unrepresentable
        /\ 1 <= RangeCount(o, m)
        /\ RangeCount(r, m) + RangeCount(o, m) <= MaxConcTags}

\* both calls have passed the argument checks of lines 117-121
InitConc ==
    /\ pc = "build"
    /\ entry = "searchInMessage"
    /\ data = "ref"
    /\ message = "m"
    /\ addTags \in BOOLEAN
    /\ msgData \in ByteSeqs(MaxMsgBytes)
    /\ ref \in ConcRefs(msgData)
    /\ vis = <<>>
    /\ searchCases = NoCases
    /\ idx = 0
    /\ ranges = <<>>
    /\ results = <<>>
    /\ tagged = 0
    /\ err = ""
    /\ calls = 1
    /\ mutated = FALSE
    /\ visAtCall = <<>>
    /\ prev = NoPrev
    /\ tagCalls = 0
    /\ other \in {OtherAt("build", t, r) :
                     t \in BOOLEAN, r \in OtherRefs(msgData, ref)}

\* lines 123-135, second call
o_buildCases ==
    /\ other.pc = "build"
    /\ other' = [other EXCEPT
          !.searchCases = CasesOf(BitArrayOf(RawToBitArray(msgData)),
                                  buildSearchTasks(other.ref)),
          !.pc = "search_entry"]
    /\ UNCHANGED <<pc, entry, data, message, addTags, ref, msgData, vis,
                   searchCases, idx, ranges, results, tagged, err, calls,
                   mutated, visAtCall, prev, tagCalls>>

\* lines 154-157, second call
o_searchEntry ==
    /\ other.pc = "search_entry"
    /\ other' = IF other.searchCases.kind = "None"
                THEN [other EXCEPT
                         !.pc = "raised",
                         !.err = "TypeError: There should be at least one search case."]
                ELSE [other EXCEPT
                         !.pc = "search_loop", !.idx = 1, !.results = <<>>]
    /\ UNCHANGED <<pc, entry, data, message, addTags, ref, msgData, vis,
                   searchCases, idx, ranges, results, tagged, err, calls,
                   mutated, visAtCall, prev, tagCalls>>

\* Faulty variant of o_searchCase: `results` is one collection that both
\* calls append to, not a local of each call.
o_searchCase_sharedResults ==
    /\ other.pc = "search_loop"
    /\ other.idx <= Len(other.searchCases.tasks)
    /\ LET step == searchOne(results, other.searchCases.target,
                             other.searchCases.tasks[other.idx])
       IN other' = IF step.raises # ""
                   THEN [other EXCEPT !.pc = "raised", !.err = step.raises,
                                      !.results = <<>>]
                   ELSE [other EXCEPT !.results = step.results,
                                      !.idx = other.idx + 1]
    /\ UNCHANGED <<pc, entry, data, message, addTags, ref, msgData, vis,
                   searchCases, idx, ranges, results, tagged, err, calls,
                   mutated, visAtCall, prev, tagCalls>>

\* lines 158-167, second call: one iteration of its own loop on its own
\* results
o_searchCase ==
    /\ other.pc = "search_loop"
    /\ other.idx <= Len(other.searchCases.tasks)
    /\ LET step == searchOne(other.results, other.searchCases.target,
                             other.searchCases.tasks[other.idx])
       IN other' = IF step.raises # ""
                   THEN [other EXCEPT !.pc = "raised", !.err = step.raises,
                                      !.results = <<>>]
                   ELSE [other EXCEPT !.results = step.results,
                                      !.idx = other.idx + 1]
    /\ UNCHANGED <<pc, entry, data, message, addTags, ref, msgData, vis,
                   searchCases, idx, ranges, results, tagged, err, calls,
                   mutated, visAtCall, prev, tagCalls>>

\* line 169 and line 135, second call
o_searchReturn ==
    /\ other.pc = "search_loop"
    /\ other.idx > Len(other.searchCases.tasks)
    /\ other' = [other EXCEPT !.pc = "tagging"]
    /\ UNCHANGED <<pc, entry, data, message, addTags, ref, msgData, vis,
                   searchCases, idx, ranges, results, tagged, err, calls,
                   mutated, visAtCall, prev, tagCalls>>

\* lines 138-141, second call: the append goes to the list of the message
\* both calls hold
o_tagRange ==
    /\ other.pc = "tagging"
    /\ other.addTags
    /\ other.tagged < Len(AllRanges(other.results))
    /\ vis' = Append(vis, AllRanges(other.results)[other.tagged + 1])
    /\ other' = [other EXCEPT !.tagged = other.tagged + 1]
    /\ UNCHANGED <<pc, entry, data, message, addTags, ref, msgData,
                   searchCases, idx, ranges, results, tagged, err, calls,
                   mutated, visAtCall, prev, tagCalls>>

\* line 142, second call
o_returnResults ==
    /\ other.pc = "tagging"
    /\ ~other.addTags \/ other.tagged = Len(AllRanges(other.results))
    /\ other' = [other EXCEPT !.pc = "returned"]
    /\ UNCHANGED <<pc, entry, data, message, addTags, ref, msgData, vis,
                   searchCases, idx, ranges, results, tagged, err, calls,
                   mutated, visAtCall, prev, tagCalls>>

NextConc ==
    \/ buildCases
    \/ searchEntry
    \/ searchCase
    \/ searchReturn
    \/ tagRange
    \/ returnResults
    \/ o_buildCases
    \/ o_searchEntry
    \/ o_searchCase
    \/ o_searchReturn
    \/ o_tagRange
    \/ o_returnResults

SpecConc == InitConc /\ [][NextConc]_vars

\* what a search of the tasks in haystack returns when nothing else runs:
\* task after task, one SearchResult for each task that occurs, holding the
\* (start, end) of every occurrence by ascending start
RECURSIVE ResultsFrom(_, _, _)
ResultsFrom(tasks, haystack, j) ==
    IF j > Len(tasks) THEN <<>>
    ELSE LET rs == HighlightsFrom(<<tasks[j]>>, haystack, 1)
         IN (IF rs = <<>> THEN <<>>
             ELSE <<SearchResult(haystack, tasks[j], rs)>>)
            \o ResultsFrom(tasks, haystack, j + 1)

AloneResults(r, m) ==
    ResultsFrom(buildSearchTasks(r), RawToBitArray(m), 1)

\* C13: of two calls running at once on the same message, whatever the
\* interleaving of their steps, neither raises and each returns the
\* SearchResults that its reference value gives on the message when the
\* call runs alone; at every step each call's target is the bit sequence of
\* the message's data.
C13_ConcurrentCallsReturnAloneResults ==
    /\ pc # "raised" /\ other.pc # "raised"
    /\ pc = "returned" => results = AloneResults(ref, msgData)
    /\ other.pc = "returned" =>
          other.results = AloneResults(other.ref, msgData)
    /\ searchCases.kind = "list" =>
          searchCases.target.bits = RawToBitArray(msgData)
    /\ other.searchCases.kind = "list" =>
          other.searchCases.target.bits = RawToBitArray(msgData)

\* C13 witness: two tagging calls searching different reference values have
\* both returned, the first with two results and the second with one of its
\* own, and their steps were interleaved: the highlights of neither call
\* come all before the other's.
C13_Witness ==
    /\ pc = "returned" /\ other.pc = "returned"
    /\ addTags /\ other.addTags
    /\ ref # other.ref
    /\ Len(results) = 2 /\ Len(other.results) = 1
    /\ \A j \in 1..2 : results[j] # other.results[1]
    /\ vis # AllRanges(results) \o AllRanges(other.results)
    /\ vis # AllRanges(other.results) \o AllRanges(results)

\* the highlights one tagging search of the reference value in the message
\* stands for
SearchHighlights ==
    HighlightsFrom(buildSearchTasks(ref), RawToBitArray(msgData), 1)

\* tags holds n whole copies of h, one after the other, followed by the
\* first k entries of h
CopiesThenPrefix(tags, h, n, k) ==
    /\ Len(tags) = n * Len(h) + k
    /\ \A p \in 1..Len(tags) : tags[p] = h[((p - 1) % Len(h)) + 1]

\* C14: over any sequence of calls on the message, the highlights present
\* when a call started are still a prefix of the list, and after n tagging
\* searches of the same reference value have returned the list holds n
\* copies of that search's highlights, one copy after the other (followed,
\* while a tagging loop runs, by the entries it has appended so far):
\* nothing is removed and nothing is de-duplicated.
C14_HighlightsAppendOnly ==
    /\ IsPrefix(visAtCall, vis)
    /\ CopiesThenPrefix(vis, SearchHighlights, tagCalls,
                        IF pc = "tagging" /\ addTags THEN tagged ELSE 0)

\* C14 witness: the search matching at several ranges has been repeated
\* MaxCalls times with tagging, and every range is highlighted MaxCalls
\* times.
C14_Witness ==
    /\ pc = "returned"
    /\ tagCalls = MaxCalls
    /\ Len(SearchHighlights) >= 2
    /\ Len(vis) = MaxCalls * Len(SearchHighlights)
    /\ \A h \in {vis[p] : p \in 1..Len(vis)} :
          Cardinality({p \in 1..Len(vis) : vis[p] = h}) >= MaxCalls

====
